---- MODULE Spec2Model ----
(***************************************************************************)
(* Model of tasks/boundprobability.py: the best-measurement selector       *)
(* (best_parameter), the name-derived seed (craft_seed), the chain draw    *)
(* (vescsolar_sampler) and the per-star pass (do_boundprobability).        *)
(*                                                                         *)
(* Units.  Measurement values and errors are integers in tenths, so the    *)
(* sentinel 9999.9 is 99999.  Correlation coefficients are in hundredths,  *)
(* so 1.0 is 100.  Probability levels are in units of 1/20000, so 0.5 is   *)
(* 10000.  Wide integers are little-endian sequences of base-256 limbs.    *)
(***************************************************************************)
EXTENDS Integers, Sequences, FiniteSets, TLC

VARIABLES
    SEED,        \* craft_seed: the identifier, a sequence of character codes
    intLimbs,    \* craft_seed: width in bytes of numpy's default integer
    seedOut,     \* craft_seed: the value returned
    pcSeed,      \* craft_seed: "call" before, "ret" after
    PARAMETER,   \* best_parameter: the measurement list
    bestOut,     \* best_parameter: the pair returned
    pcBest,      \* best_parameter: "call" before, "ret" after
    keys,        \* do_boundprobability: list(catalog.entries.keys())
    idx,         \* position of the loop in keys (1-based)
    pc,          \* "loop", "done" or "raised"
    cur,         \* the entry of the key visited last, as it was before the visit
    out,         \* what the visit computed and added to that entry
    status,      \* per key: "pending", "missing", "skipped", "written", "raised"
    rng,         \* state of the process-wide numpy generator
    log,         \* keys a warning was logged for
    commits      \* number of calls of catalog.journal_entries()

seedVars == <<SEED, intLimbs, seedOut, pcSeed>>
bestVars == <<PARAMETER, bestOut, pcBest>>
passVars == <<keys, idx, pc, cur, out, status, rng, log, commits>>
vars == <<SEED, intLimbs, seedOut, pcSeed, PARAMETER, bestOut, pcBest,
          keys, idx, pc, cur, out, status, rng, log, commits>>

(***************************************************************************)
(* Bounds                                                                  *)
(***************************************************************************)
MaxNameLen == 3
MaxLen == 2
MaxKeys == 2
NSamp == 2

Min(a, b) == IF a < b THEN a ELSE b
Max(a, b) == IF a > b THEN a ELSE b

SeqsUpTo(S, n) == UNION {[1..m -> S] : m \in 1..n}

(***************************************************************************)
(* Wide integers                                                           *)
(***************************************************************************)
Base == 256

RECURSIVE MulCarry(_, _, _)
\* num * m + carry, exact
MulCarry(num, m, carry) ==
    IF num = <<>>
    THEN IF carry = 0 THEN <<>>
         ELSE <<carry % Base>> \o MulCarry(<<>>, m, carry \div Base)
    ELSE LET t == Head(num) * m + carry
         IN  <<t % Base>> \o MulCarry(Tail(num), m, t \div Base)

\* the w low limbs of num, zero-filled
Low(num, w) == [i \in 1..w |-> IF i <= Len(num) THEN num[i] ELSE 0]

IsZero(num) == \A i \in 1..Len(num) : num[i] = 0

RECURSIVE AddCarry(_, _)
AddCarry(num, carry) ==
    IF num = <<>> THEN <<>>
    ELSE LET t == Head(num) + carry
         IN  <<t % Base>> \o AddCarry(Tail(num), t \div Base)

\* two's complement of num in Len(num) limbs: (Base^Len - num) mod Base^Len
Negate(num) == AddCarry([i \in 1..Len(num) |-> Base - 1 - num[i]], 1)

RECURSIVE ProdExact(_)
\* the mathematical product of a sequence of character codes
ProdExact(codes) ==
    IF codes = <<>> THEN <<1>>
    ELSE MulCarry(ProdExact(Tail(codes)), Head(codes), 0)

RECURSIVE ProdWrap(_, _)
\* np.prod over an integer array of w bytes per element: every
\* multiplication keeps the w low bytes (two's complement wrap-around)
ProdWrap(codes, w) ==
    IF codes = <<>> THEN Low(<<1>>, w)
    ELSE Low(MulCarry(ProdWrap(Tail(codes), w), Head(codes), 0), w)

\* the signed value of a w-byte two's complement pattern
Signed(bits) ==
    IF bits[Len(bits)] >= Base \div 2
    THEN [neg |-> TRUE,  mag |-> Negate(bits)]
    ELSE [neg |-> FALSE, mag |-> bits]

\* x fmod 2^32: the remainder takes the sign of the dividend
TruncMod32(x) ==
    LET r == Low(x.mag, 4)
    IN  [neg |-> x.neg /\ ~IsZero(r), mag |-> r]

\* x % 4294967296 as numpy and Python compute it: the remainder takes the
\* sign of the divisor
FloorMod32(x) ==
    LET r == Low(x.mag, 4)
    IN  IF x.neg /\ ~IsZero(r) THEN [neg |-> FALSE, mag |-> Negate(r)]
        ELSE [neg |-> FALSE, mag |-> r]

\* [ord(SEED[i % nSEED]) for i in range(2*(nSEED+3))]
SeedCodes(name) ==
    LET nSEED == Len(name)
    IN  [j \in 1..(2 * (nSEED + 3)) |-> name[((j - 1) % nSEED) + 1]]

craft_seed(name, w) == FloorMod32(Signed(ProdWrap(SeedCodes(name), w)))

(***************************************************************************)
(* Catalog quantities and best_parameter                                   *)
(*                                                                         *)
(* A quantity is a record whose fields are the keys its dict holds, so     *)
(* `key in quantity` is key \in DOMAIN quantity.                           *)
(***************************************************************************)
None == -1     \* marks an absent field when a quantity is built

Quantity(v, e, lo, hi, d, c) ==
    LET ks == {"value"}
              \cup (IF e = None THEN {} ELSE {"e_value"})
              \cup (IF lo = None THEN {} ELSE {"e_lower_value"})
              \cup (IF hi = None THEN {} ELSE {"e_upper_value"})
              \cup (IF d THEN {"derived"} ELSE {})
              \cup (IF c = <<>> THEN {} ELSE {"correlations"})
    IN  [k \in ks |->
            CASE k = "value" -> v
              [] k = "e_value" -> e
              [] k = "e_lower_value" -> lo
              [] k = "e_upper_value" -> hi
              [] k = "derived" -> TRUE
              [] k = "correlations" -> c]

Has(q, key) == key \in DOMAIN q

\* 9999.9
Sentinel == 99999

\* QUANTITY.DERIVED is the key named 'derived', a str; True is a bool
QUANTITY_DERIVED == [type |-> "str", val |-> "derived"]
PyTrue == [type |-> "bool", val |-> "True"]

\* a == b on Python values of these types: a str never equals a bool
PyEq(a, b) == a.type = b.type /\ a.val = b.val

\* lines 46-49 with min for max
ErrorOfMin(q) ==
    IF Has(q, "e_value") THEN q.e_value
    ELSE IF Has(q, "e_lower_value") /\ Has(q, "e_upper_value")
         THEN Min(q.e_lower_value, q.e_upper_value)
         ELSE Sentinel

\* the metric of entry q without the derived test: lines 46-49
ErrorOf(q) ==
    IF Has(q, "e_value") THEN q.e_value
    ELSE IF Has(q, "e_lower_value") /\ Has(q, "e_upper_value")
         THEN Max(q.e_lower_value, q.e_upper_value)
         ELSE Sentinel

\* errPARAMETER after the loop of lines 43-49
errPARAMETER(P) ==
    [i \in 1..Len(P) |->
        IF PyEq(QUANTITY_DERIVED, PyTrue) THEN Sentinel ELSE ErrorOf(P[i])]

\* np.argmin: the first position of the minimum, 0-based
ArgMin(err) ==
    (CHOOSE i \in 1..Len(err) :
        /\ \A j \in 1..Len(err) : err[i] <= err[j]
        /\ \A j \in 1..(i - 1) : err[j] # err[i]) - 1

best_parameter(P) ==
    LET err == errPARAMETER(P)
        BESTI == ArgMin(err)
    IN  <<BESTI, err[BESTI + 1]>>

(***************************************************************************)
(* Specification of best_parameter alone                                   *)
(***************************************************************************)
BestEntries ==
    {Quantity(10, e, lo, hi, d, <<>>) :
        e \in {None, 1, 5}, lo \in {None, 2, 8}, hi \in {None, 3}, d \in BOOLEAN}

(***************************************************************************)
(* Catalog entries                                                         *)
(*                                                                         *)
(* An entry is a function from the keys it holds to lists of quantities.   *)
(***************************************************************************)
In(entry, key) == key \in DOMAIN entry

Entry(ra, dec, px, pmra, pmdec, vel, ld, dpls) ==
    LET ks == (IF ra = <<>> THEN {} ELSE {"ra"})
              \cup (IF dec = <<>> THEN {} ELSE {"dec"})
              \cup (IF px = <<>> THEN {} ELSE {"parallax"})
              \cup (IF pmra = <<>> THEN {} ELSE {"propermotionra"})
              \cup (IF pmdec = <<>> THEN {} ELSE {"propermotiondec"})
              \cup (IF vel = <<>> THEN {} ELSE {"velocity"})
              \cup (IF ld = <<>> THEN {} ELSE {"lumdist"})
              \cup (IF dpls = <<>> THEN {} ELSE {"distancepriorlengthscale"})
    IN  [k \in ks |->
            CASE k = "ra" -> ra
              [] k = "dec" -> dec
              [] k = "parallax" -> px
              [] k = "propermotionra" -> pmra
              [] k = "propermotiondec" -> pmdec
              [] k = "velocity" -> vel
              [] k = "lumdist" -> ld
              [] k = "distancepriorlengthscale" -> dpls]

Plain(v, e) == Quantity(v, e, None, None, FALSE, <<>>)
Corr(qname, v) == [quantity |-> qname, value |-> v]

PxCorr == <<Corr("propermotionra", 30), Corr("propermotiondec", -20)>>
PmRaCorr == <<Corr("parallax", 30), Corr("propermotiondec", 40)>>
PmDecCorr == <<Corr("parallax", -20), Corr("propermotionra", 40)>>

Position == <<Plain(64, None)>>

ParallaxLists ==
    { <<>>,
      <<Plain(50, 6)>>,
      <<Plain(50, None)>>,
      <<Quantity(50, 6, None, None, FALSE, PxCorr)>> }

\* <<proper motion RA list, proper motion Dec list>>
ProperMotionLists ==
    { << <<>>, <<>> >>,
      << <<Plain(100, 4)>>, <<>> >>,
      << <<Quantity(100, 4, None, None, FALSE, PmRaCorr)>>,
         <<Quantity(-50, 2, None, None, FALSE, PmDecCorr)>> >>,
      << <<Quantity(100, None, None, None, FALSE, PmRaCorr)>>,
         <<Quantity(-50, 2, None, None, FALSE, PmDecCorr)>> >>,
      << <<Plain(100, 4)>>, <<Plain(-50, 2)>> >>,
      << <<Plain(120, 8), Quantity(100, 4, None, None, FALSE, PmRaCorr)>>,
         <<Plain(-60, 8), Quantity(-50, 2, None, None, FALSE, PmDecCorr)>> >> }

VelocityLists ==
    { <<>>,
      <<Plain(200, 20)>>,
      <<Plain(200, None)>>,
      <<Quantity(200, None, 10, 30, FALSE, <<>>)>>,
      <<Plain(200, None), Quantity(5000, 10, None, None, TRUE, <<>>)>> }

LumDistLists == {<<>>, <<Plain(40, 4)>>, <<Plain(40, None)>>}

\* every entry with a position, entries that lack a right ascension, a
\* declination or both, and entries with a distance prior length scale
Entries ==
    {Entry(Position, Position, px, pm[1], pm[2], vel, ld, <<>>) :
        px \in ParallaxLists, pm \in ProperMotionLists,
        vel \in VelocityLists, ld \in LumDistLists}
    \cup
    {Entry(pos[1], pos[2], px, <<Plain(100, 4)>>, <<Plain(-50, 2)>>,
           <<Plain(200, 20)>>, ld, <<>>) :
        pos \in {<< <<>>, <<>> >>, <<Position, <<>> >>, << <<>>, Position>>},
        px \in ParallaxLists, ld \in LumDistLists}
    \cup
    {Entry(Position, Position, <<Plain(50, 6)>>, <<>>, <<>>, <<>>, ld, <<Plain(20, None)>>) :
        ld \in LumDistLists}

(***************************************************************************)
(* Kinematic inputs: lines 109-206                                         *)
(***************************************************************************)
\* errorifmissing = 0.5, in tenths
errorifmissing == 5

\* errorifmissing * v
IfMissing(v) == (errorifmissing * v) \div 10

\* `key in list` compares the key, a str, with every element, a dict, and a
\* str never equals a dict
StrEqDict(key, q) == FALSE
PyInList(key, list) == \E i \in 1..Len(list) : StrEqDict(key, list[i])

Set2(m, a, b, v) == [m EXCEPT ![a][b] = v, ![b][a] = v]

RECURSIVE CorrLoop(_, _, _, _, _)
\* for i in range(n_corr): if clist[i]['quantity'] == qname: m[a,b] = m[b,a] = value
CorrLoop(m, clist, qname, a, b) ==
    IF clist = <<>> THEN m
    ELSE CorrLoop(IF Head(clist).quantity = qname
                  THEN Set2(m, a, b, Head(clist).value) ELSE m,
                  Tail(clist), qname, a, b)

\* np.diag(np.ones(4)), in hundredths
Identity4 == [i \in 0..3 |-> [j \in 0..3 |-> IF i = j THEN 100 ELSE 0]]

\* lines 118-119; kine_L is kept as <<numerator, denominator>>
PriorStep(e, k) ==
    IF ~In(e, "distancepriorlengthscale") THEN k
    ELSE [k EXCEPT !.kine_L = <<e["distancepriorlengthscale"][1].value, 10>>]

\* line 131 reads ['e_value'] of the first parallax entry without a test
ParallaxRaises(e) == In(e, "parallax") /\ ~Has(e["parallax"][1], "e_value")

\* lines 127-142
ParallaxStep(e, k) ==
    IF ~In(e, "parallax") THEN k
    ELSE LET px == e["parallax"]
             k1 == [k EXCEPT !.haveparallax = TRUE,
                             !.kine_values[0] = px[1].value,
                             !.kine_errors[0] = px[1].e_value]
         IN  IF PyInList("correlations", px)
             THEN [k1 EXCEPT !.kine_corr =
                      CorrLoop(CorrLoop(k1.kine_corr, px[1].correlations,
                                        "propermotionra", 0, 1),
                               px[1].correlations, "propermotiondec", 0, 2)]
             ELSE k1

\* lines 145-170
ProperMotionStep(e, k) ==
    IF ~(In(e, "propermotionra") /\ In(e, "propermotiondec")) THEN k
    ELSE LET best_propermotion_i == best_parameter(e["propermotionra"])[1]
             pmra == e["propermotionra"][best_propermotion_i + 1]
             pmdec == e["propermotiondec"][best_propermotion_i + 1]
             k1 == [k EXCEPT !.havepropermotions = TRUE,
                             !.best_propermotion_i = best_propermotion_i,
                             !.kine_values[1] = pmra.value,
                             !.kine_values[2] = pmdec.value]
             k2 == IF Has(pmra, "e_value") /\ Has(pmdec, "e_value")
                   THEN [k1 EXCEPT !.kine_errors[1] = pmra.e_value,
                                   !.kine_errors[2] = pmdec.e_value]
                   ELSE [k1 EXCEPT !.kine_errors[1] = IfMissing(pmra.value),
                                   !.kine_errors[2] = IfMissing(pmdec.value)]
         IN  IF Has(pmra, "correlations") /\ Has(pmdec, "correlations")
             THEN [k2 EXCEPT !.kine_corr =
                      CorrLoop(k2.kine_corr, pmra.correlations,
                               "propermotiondec", 1, 2)]
             ELSE [k2 EXCEPT !.kine_corr =
                      Set2(Set2(k2.kine_corr, 0, 1, 0), 0, 2, 0)]

\* best_velocity_err < 9999.0
Usable(err) == err < 99990

\* lines 173-187
VelocityStep(e, k) ==
    IF ~In(e, "velocity") THEN k
    ELSE LET best == best_parameter(e["velocity"])
             v == e["velocity"][best[1] + 1].value
         IN  [k EXCEPT !.havevelocities = TRUE,
                       !.best_velocity_i = best[1],
                       !.kine_values[3] = v,
                       !.kine_errors[3] =
                           IF Usable(best[2]) THEN best[2] ELSE IfMissing(v)]

\* lines 190-206; kine_L and kine_k are kept as <<numerator, denominator>>
LumDistStep(e, k) ==
    IF ~In(e, "lumdist") THEN k
    ELSE LET best == best_parameter(e["lumdist"])
             kine_mu == e["lumdist"][best[1] + 1].value
             kine_sigma == IF Usable(best[2]) THEN best[2] ELSE IfMissing(kine_mu)
         IN  [k EXCEPT !.best_lumdist_i = best[1],
                       !.kine_mu = kine_mu,
                       !.kine_sigma = kine_sigma,
                       !.kine_L = <<kine_sigma * kine_sigma, 10 * kine_mu>>,
                       !.kine_k = <<kine_mu * kine_mu, kine_sigma * kine_sigma>>]

\* lines 110-124, and the indices the selector returns further down
Kine0 ==
    [ haveparallax |-> FALSE, havepropermotions |-> FALSE, havevelocities |-> FALSE,
      kine_values |-> [i \in 0..3 |-> 0],
      kine_errors |-> [i \in 0..3 |-> Sentinel],
      kine_corr |-> Identity4,
      best_propermotion_i |-> 0, best_velocity_i |-> 0, best_lumdist_i |-> 0,
      kine_mu |-> 0, kine_sigma |-> 0,
      kine_L |-> <<135, 100>>, kine_k |-> <<3, 1>> ]

Kinematics(e) ==
    LumDistStep(e, VelocityStep(e, ProperMotionStep(e,
        ParallaxStep(e, PriorStep(e, Kine0)))))

(***************************************************************************)
(* The chain draw: lines 64-77                                             *)
(*                                                                         *)
(* numpy's generator is a small linear congruential generator here: what   *)
(* matters is that seeding replaces its state and every draw advances it.  *)
(***************************************************************************)
RngMod == 5
RngStates == 0..(RngMod - 1)

\* chain[:,5] and chain[:,6] of spherical_powerlaw.dat, three rows
VESCSOLAR == <<52, 55, 58>>
ALPHA == <<3, 4, 5>>

\* the generator state np.random.seed(seed) installs
SeedState(seed) == (seed.mag[1] + seed.mag[2] + seed.mag[3] + seed.mag[4]) % RngMod

\* np.random.seed(seed=...): the state before plays no part
NpRandomSeedKeep(old, seed) == old
NpRandomSeed(old, seed) == SeedState(seed)

NextRng(g) == (2 * g + 1) % RngMod

RECURSIVE NpRandomChoice(_, _, _)
\* np.random.choice(range(n), NSAMP): the indices drawn and the state left
NpRandomChoice(g, n, NSAMP) ==
    IF NSAMP = 0 THEN [picks |-> <<>>, state |-> g]
    ELSE LET g1 == NextRng(g)
             rest == NpRandomChoice(g1, n, NSAMP - 1)
         IN  [picks |-> <<g1 % n>> \o rest.picks, state |-> rest.state]

vescsolar_sampler(g, NAME, NSAMP, w) ==
    LET c == NpRandomChoice(NpRandomSeed(g, craft_seed(NAME, w)), Len(VESCSOLAR), NSAMP)
    IN  [ choice_chain |-> c.picks,
          kine_vesc_solar |-> [i \in 1..NSAMP |-> VESCSOLAR[c.picks[i] + 1]],
          kine_alpha |-> [i \in 1..NSAMP |-> ALPHA[c.picks[i] + 1]],
          state |-> c.state ]

(***************************************************************************)
(* Bound probability and the quantities stored: lines 264-276              *)
(***************************************************************************)
\* confidenceintervalcoverage = 0.6827, in units of 1/20000
confidenceintervalcoverage == 13654
One == 20000

\* beta.ppf(q, a, b) is kept as the term it is, with a and b doubled
BetaPpf(q, a2, b2) == [q |-> q, a2 |-> a2, b2 |-> b2]

\* x - y of two such terms
Minus(x, y) == [minuend |-> x, subtrahend |-> y]

\* line 267
kine_bound_percentiles(kine_bound_n, kine_samples_n) ==
    LET kine_betaa2 == 2 * kine_bound_n + 1
        kine_betab2 == 2 * (kine_samples_n - kine_bound_n) + 1
    IN  << BetaPpf(confidenceintervalcoverage \div 2, kine_betaa2, kine_betab2),
           BetaPpf(One \div 2, kine_betaa2, kine_betab2),
           BetaPpf(One - confidenceintervalcoverage \div 2, kine_betaa2, kine_betab2) >>

\* line 271
UpperLimitBoth(havepropermotions, havevelocities) ==
    (havepropermotions = FALSE /\ havevelocities = FALSE)
boundprobability_upperlimit(havepropermotions, havevelocities) ==
    (havepropermotions = FALSE \/ havevelocities = FALSE)

\* lines 272-276
Stored(k, p) ==
    LET flag == boundprobability_upperlimit(k.havepropermotions, k.havevelocities)
    IN  << [ quantity |-> "boundprobability", value |-> p[2],
             e_lower_value |-> Minus(p[2], p[1]),
             e_upper_value |-> Minus(p[3], p[2]),
             upperlimit |-> flag, derived |-> TRUE ],
           [ quantity |-> "velocity", kind |-> <<"galactocentric", "escape">>,
             derived |-> TRUE ],
           [ quantity |-> "velocity", kind |-> <<"galactocentric", "total">>,
             lowerlimit |-> flag, derived |-> TRUE ] >>
        \o (IF k.haveparallax = TRUE
            THEN << [quantity |-> "lumdist", derived |-> TRUE] >>
            ELSE << >>)

(***************************************************************************)
(* Values of the variables of an operation that is not running             *)
(***************************************************************************)
Alphabet == {72, 86, 83, 122}     \* 'H', 'V', 'S', 'z'
IntWidths == {4, 8}               \* numpy's default integer: int32 or int64

NoSeed == [neg |-> FALSE, mag |-> <<>>]

SeedIdle ==
    /\ SEED = <<>>
    /\ intLimbs = 0
    /\ seedOut = NoSeed
    /\ pcSeed = "idle"

BestIdle ==
    /\ PARAMETER = <<>>
    /\ bestOut = <<0, 0>>
    /\ pcBest = "idle"

(***************************************************************************)
(* The pass: lines 54-280                                                  *)
(***************************************************************************)
Names == { <<72, 86, 83>>, <<83, 49>>, <<122>> }     \* 'HVS', 'S1', 'z'

\* kine_vgrf, with the radial factor of line 250 divided out
VgrfLevels == {50, 60}

NoEntry == Entry(<<>>, <<>>, <<>>, <<>>, <<>>, <<>>, <<>>, <<>>)

NoOut ==
    [ selfsource |-> FALSE, quantities |-> <<>>, kine |-> Kine0,
      choice_chain |-> <<>>, kine_bound_n |-> 0, rngAtEntry |-> 0 ]

\* lines 93-94
Eligible(e) ==
    ~( ~In(e, "ra") \/ ~In(e, "dec")
       \/ (~In(e, "lumdist") /\ ~In(e, "parallax")) )

DistinctSeqs(S, n) ==
    {q \in SeqsUpTo(S, n) : \A i, j \in 1..Len(q) : i # j => q[i] # q[j]}

PassIdle ==
    /\ keys = <<>>
    /\ idx = 0
    /\ pc = "idle"
    /\ cur = NoEntry
    /\ out = NoOut
    /\ status = <<>>
    /\ rng = 0
    /\ log = <<>>
    /\ commits = 0

Init ==
    /\ keys \in DistinctSeqs(Names, MaxKeys)
    /\ idx = 1
    /\ pc = "loop"
    /\ cur = NoEntry
    /\ out = NoOut
    /\ status = [i \in 1..Len(keys) |-> "pending"]
    /\ rng = 0
    /\ log = <<>>
    /\ commits = 0
    /\ SEED = <<>>
    /\ intLimbs = 8
    /\ seedOut = NoSeed
    /\ pcSeed = "idle"
    /\ BestIdle

AtLoopHead == pc = "loop" /\ idx <= Len(keys)

\* lines 85-91: catalog.add_entry(oname) raises; a warning is logged and the
\* loop continues
LookupFails ==
    /\ AtLoopHead
    /\ log' = Append(log, keys[idx])
    /\ status' = [status EXCEPT ![idx] = "missing"]
    /\ pc' = "next"
    /\ UNCHANGED <<keys, idx, cur, out, rng, commits, seedVars, bestVars>>

\* line 86: catalog.add_entry(oname) returns; the entry is whatever the
\* catalog holds under that name
AddEntry ==
    /\ AtLoopHead
    /\ cur' \in Entries
    /\ pc' = "entry"
    /\ UNCHANGED <<keys, idx, out, status, rng, log, commits, seedVars, bestVars>>

\* lines 93-96: the entry lacks a position or any distance
SkipEntry ==
    /\ pc = "entry"
    /\ ~Eligible(cur)
    /\ status' = [status EXCEPT ![idx] = "skipped"]
    /\ pc' = "next"
    /\ UNCHANGED <<keys, idx, cur, out, rng, log, commits, seedVars, bestVars>>

\* line 131 raises KeyError, which nothing catches: the pass ends there
ParallaxKeyError ==
    /\ pc = "entry"
    /\ Eligible(cur)
    /\ ParallaxRaises(cur)
    /\ status' = [status EXCEPT ![idx] = "raised"]
    /\ pc' = "raised"
    /\ UNCHANGED <<keys, idx, cur, out, rng, log, commits, seedVars, bestVars>>

\* lines 97-276.  kinematic_sampler and solarmotion_sampler are not part of
\* this file: they may leave the generator in any state g, and the total
\* velocities they lead to are any vgrf.
ProcessStar ==
    /\ pc = "entry"
    /\ Eligible(cur)
    /\ ~ParallaxRaises(cur)
    /\ \E k \in {Kinematics(cur)}, g \in RngStates :
         \E vs \in {vescsolar_sampler(g, keys[idx], NSamp, intLimbs)} :
           \E vgrf \in [1..NSamp -> VgrfLevels] :
             \E n \in {Cardinality({i \in 1..NSamp : vs.kine_vesc_solar[i] > vgrf[i]})} :
               /\ out' = [ selfsource |-> TRUE,
                           quantities |-> Stored(k, kine_bound_percentiles(n, NSamp)),
                           kine |-> k,
                           choice_chain |-> vs.choice_chain,
                           kine_bound_n |-> n,
                           rngAtEntry |-> rng ]
               /\ rng' = vs.state
    /\ status' = [status EXCEPT ![idx] = "written"]
    /\ pc' = "next"
    /\ UNCHANGED <<keys, idx, cur, log, commits, seedVars, bestVars>>

\* line 82: the loop takes the next key
NextKey ==
    /\ pc = "next"
    /\ idx' = idx + 1
    /\ cur' = NoEntry
    /\ out' = NoOut
    /\ pc' = "loop"
    /\ UNCHANGED <<keys, status, rng, log, commits, seedVars, bestVars>>

\* line 277, after the loop
JournalEntries ==
    /\ pc = "loop"
    /\ idx > Len(keys)
    /\ commits' = commits + 1
    /\ pc' = "done"
    /\ UNCHANGED <<keys, idx, cur, out, status, rng, log, seedVars, bestVars>>

Next ==
    \/ LookupFails
    \/ AddEntry
    \/ SkipEntry
    \/ ParallaxKeyError
    \/ ProcessStar
    \/ NextKey
    \/ JournalEntries

Spec == Init /\ [][Next]_vars

(***************************************************************************)
(* craft_seed and best_parameter called on their own                       *)
(***************************************************************************)
InitSeed ==
    /\ SEED \in SeqsUpTo(Alphabet, MaxNameLen)
    /\ intLimbs \in IntWidths
    /\ seedOut = NoSeed
    /\ pcSeed = "call"
    /\ BestIdle
    /\ PassIdle

\* seed = craft_seed(NAME)
CallCraftSeed ==
    /\ pcSeed = "call"
    /\ seedOut' = craft_seed(SEED, intLimbs)
    /\ pcSeed' = "ret"
    /\ UNCHANGED <<SEED, intLimbs, bestVars, passVars>>

NextSeed == CallCraftSeed

InitBest ==
    /\ PARAMETER \in SeqsUpTo(BestEntries, MaxLen)
    /\ bestOut = <<0, 0>>
    /\ pcBest = "call"
    /\ SeedIdle
    /\ PassIdle

\* BESTI, err = best_parameter(PARAMETER)
CallBestParameter ==
    /\ pcBest = "call"
    /\ bestOut' = best_parameter(PARAMETER)
    /\ pcBest' = "ret"
    /\ UNCHANGED <<PARAMETER, seedVars, passVars>>

NextBest == CallBestParameter


SpecSeed == InitSeed /\ [][NextSeed]_vars

SpecBest == InitBest /\ [][NextBest]_vars

(***************************************************************************)
(* Properties of craft_seed                                                *)
(***************************************************************************)
WrappedProduct == Signed(ProdWrap(SeedCodes(SEED), intLimbs))

\* C8: for a non-empty identifier, craft_seed returns the exact product of
\* the character codes name[i mod n], i = 0 .. 2(n+3)-1, reduced modulo 2^32:
\* a value in 0 .. 2^32-1 that equals the low 32 bits of the mathematical
\* product, also when the product overflows the machine integer.
C8_SeedIsProductMod32 ==
    pcSeed = "ret" =>
        /\ seedOut.neg = FALSE
        /\ Len(seedOut.mag) = 4
        /\ \A i \in 1..4 : seedOut.mag[i] \in 0..(Base - 1)
        /\ seedOut.mag = Low(ProdExact(SeedCodes(SEED)), 4)

\* C8 witness: a seed returned after the product overflowed the machine
\* integer and wrapped to a negative value
C8_Witness ==
    /\ pcSeed = "ret"
    /\ Len(ProdExact(SeedCodes(SEED))) > intLimbs
    /\ WrappedProduct.neg
    /\ ~IsZero(Low(WrappedProduct.mag, 4))

(***************************************************************************)
(* Properties of best_parameter                                            *)
(***************************************************************************)
IsDerived(q) == Has(q, "derived")

\* the metric as the specification words it
SpecMetric(q) ==
    IF Has(q, "e_value") THEN q.e_value
    ELSE IF Has(q, "e_lower_value") /\ Has(q, "e_upper_value")
         THEN (IF q.e_lower_value >= q.e_upper_value
               THEN q.e_lower_value ELSE q.e_upper_value)
         ELSE 99999

Returned == PARAMETER[bestOut[1] + 1]

\* C1: best_parameter returns a derived entry only when every non-derived
\* entry of the list is unconstrained (metric 9999.9); in particular a
\* derived entry never wins over a non-derived entry that carries an error.
C1_DerivedNeverBeatsPrimary ==
    (pcBest = "ret" /\ IsDerived(Returned)) =>
        \A j \in 1..Len(PARAMETER) :
            ~IsDerived(PARAMETER[j]) => SpecMetric(PARAMETER[j]) = 99999

\* C2: for a non-empty list best_parameter returns (i, m), m the minimum of
\* the entries' metrics (symmetric error, else the larger asymmetric error
\* when both are present, else 9999.9) and i the lowest index attaining it;
\* when every entry is unconstrained the result is (0, 9999.9).
C2_FirstMinimumMetric ==
    pcBest = "ret" =>
        /\ bestOut[1] \in 0..(Len(PARAMETER) - 1)
        /\ bestOut[2] = SpecMetric(Returned)
        /\ \A j \in 1..Len(PARAMETER) : bestOut[2] <= SpecMetric(PARAMETER[j])
        /\ \A j \in 1..bestOut[1] : SpecMetric(PARAMETER[j]) # bestOut[2]
        /\ (\A j \in 1..Len(PARAMETER) : SpecMetric(PARAMETER[j]) = 99999)
               => bestOut = <<0, 99999>>

\* C2 witness: the second entry wins with the larger of its two asymmetric
\* errors, the first being unconstrained
C2_Witness ==
    /\ pcBest = "ret"
    /\ Len(PARAMETER) >= 2
    /\ bestOut = <<1, 8>>
    /\ ~Has(PARAMETER[2], "e_value")
    /\ PARAMETER[2].e_lower_value = 8
    /\ PARAMETER[2].e_upper_value = 3

(***************************************************************************)
(* Properties of the pass                                                  *)
(***************************************************************************)
\* the body of the loop has just ended for keys[idx]
Visited == pc \in {"next", "raised"}
Written == pc = "next" /\ status[idx] = "written"

BoundProbability == out.quantities[1]
TotalVelocity == out.quantities[3]

\* C3: the bound probability stored is the median of
\* Beta(k_bound + 0.5, N - k_bound + 0.5), its lower error the median minus
\* the (1 - c)/2 quantile and its upper error the 1 - (1 - c)/2 quantile
\* minus the median, so that the interval has coverage c.
C3_IntervalHasCoverage ==
    Written =>
        LET a2 == 2 * out.kine_bound_n + 1
            b2 == 2 * (NSamp - out.kine_bound_n) + 1
            c == confidenceintervalcoverage
            median == BetaPpf(One \div 2, a2, b2)
            lower == BetaPpf((One - c) \div 2, a2, b2)
            upper == BetaPpf(One - (One - c) \div 2, a2, b2)
        IN  /\ BoundProbability.value = median
            /\ BoundProbability.e_lower_value = Minus(median, lower)
            /\ BoundProbability.e_upper_value = Minus(upper, median)
            /\ BoundProbability.e_upper_value.minuend.q
                 - BoundProbability.e_lower_value.subtrahend.q = c

\* the entry carries neither a symmetric error nor both asymmetric errors
NoUsableError(q) ==
    ~Has(q, "e_value") /\ ~(Has(q, "e_lower_value") /\ Has(q, "e_upper_value"))

\* the value multiplied by the missing-error fraction 0.5
HalfOf(v) == (5 * v) \div 10

\* C4: for an eligible star, an input (parallax, proper motion RA and Dec,
\* radial velocity, photometric distance) whose chosen entry carries no
\* usable error never makes the computation fail, and the error handed on
\* for it is its value times 0.5.
C4_MissingErrorImputed ==
    (Visited /\ status[idx] \in {"written", "raised"}) =>
        /\ pc # "raised"
        /\ (In(cur, "parallax") /\ NoUsableError(cur["parallax"][1]))
               => out.kine.kine_errors[0] = HalfOf(cur["parallax"][1].value)
        /\ (In(cur, "propermotionra") /\ In(cur, "propermotiondec"))
               => LET i == out.kine.best_propermotion_i + 1
                  IN  /\ NoUsableError(cur["propermotionra"][i])
                           => out.kine.kine_errors[1]
                                = HalfOf(cur["propermotionra"][i].value)
                      /\ NoUsableError(cur["propermotiondec"][i])
                           => out.kine.kine_errors[2]
                                = HalfOf(cur["propermotiondec"][i].value)
        /\ In(cur, "velocity")
               => LET q == cur["velocity"][out.kine.best_velocity_i + 1]
                  IN  NoUsableError(q) => out.kine.kine_errors[3] = HalfOf(q.value)
        /\ In(cur, "lumdist")
               => LET q == cur["lumdist"][out.kine.best_lumdist_i + 1]
                  IN  NoUsableError(q) => out.kine.kine_sigma = HalfOf(q.value)

HasRequired(e) ==
    In(e, "ra") /\ In(e, "dec") /\ (In(e, "parallax") \/ In(e, "lumdist"))

\* C5: an entry of the catalog receives derived quantities if and only if it
\* has a right ascension, a declination and a parallax or a photometric
\* distance; an entry lacking one of these is left as it was (no quantity,
\* no self source) and no warning is logged for it.
C5_DerivedIffRequiredData ==
    (Visited /\ status[idx] \in {"skipped", "written", "raised"}) =>
        /\ (out.quantities # <<>>) <=> HasRequired(cur)
        /\ ~HasRequired(cur) =>
               /\ out = NoOut
               /\ \A i \in 1..Len(log) : log[i] # keys[idx]

\* the gate of C5 taken alone: what is written was eligible, and what is
\* not eligible is left as it was
GateIsAsSpecified ==
    (Visited /\ status[idx] \in {"skipped", "written", "raised"}) =>
        /\ (out.quantities # <<>>) => HasRequired(cur)
        /\ (status[idx] = "skipped") <=> ~HasRequired(cur)
        /\ ~HasRequired(cur) => out = NoOut

MotionsOrVelocityAbsent(e) ==
    \/ ~(In(e, "propermotionra") /\ In(e, "propermotiondec"))
    \/ ~In(e, "velocity")

\* C6: for a processed star the bound probability carries the upper-limit
\* flag exactly when the proper motions (the pair of components) or the
\* radial velocity are absent from the entry, the total galactocentric
\* velocity carries the lower-limit flag under the same condition, and a
\* star with parallax, both proper motions and radial velocity has neither.
C6_LimitFlags ==
    Written =>
        /\ BoundProbability.quantity = "boundprobability"
        /\ TotalVelocity.kind = <<"galactocentric", "total">>
        /\ BoundProbability.upperlimit = MotionsOrVelocityAbsent(cur)
        /\ TotalVelocity.lowerlimit = MotionsOrVelocityAbsent(cur)
        /\ ( In(cur, "parallax") /\ In(cur, "propermotionra")
             /\ In(cur, "propermotiondec") /\ In(cur, "velocity") )
               => (~BoundProbability.upperlimit /\ ~TotalVelocity.lowerlimit)

\* C6 witness: a star written with a radial velocity and no proper motions,
\* flagged
C6_Witness ==
    /\ Written
    /\ In(cur, "velocity")
    /\ ~In(cur, "propermotionra")
    /\ ~In(cur, "propermotiondec")
    /\ BoundProbability.upperlimit
    /\ TotalVelocity.lowerlimit

PassEnded == pc \in {"done", "raised"}

\* C7: a failed lookup does not stop the pass: a warning is logged for the
\* key and it gets no result, every later key is still visited, and
\* journal_entries is called exactly once, after the last key and never
\* before.
C7_FailedLookupDoesNotStopPass ==
    /\ \A i \in 1..Len(keys) :
          status[i] = "missing" => \E j \in 1..Len(log) : log[j] = keys[i]
    /\ (pc = "next" /\ status[idx] = "missing") => out = NoOut
    /\ commits <= 1
    /\ commits = 1 => idx > Len(keys)
    /\ (PassEnded /\ \E i \in 1..Len(keys) : status[i] = "missing") =>
          /\ \A i \in 1..Len(keys) : status[i] # "pending"
          /\ commits = 1

\* the part of C7 that is about the lookup and the place of the commit
CommitOnlyAfterLastKey ==
    /\ \A i \in 1..Len(keys) :
          status[i] = "missing" => \E j \in 1..Len(log) : log[j] = keys[i]
    /\ (pc = "next" /\ status[idx] = "missing") => (out = NoOut /\ idx <= Len(keys))
    /\ commits <= 1
    /\ commits = 1 => (idx > Len(keys) /\ \A i \in 1..Len(keys) : status[i] # "pending")
    /\ pc = "done" => commits = 1

\* the chain indices vescsolar_sampler draws for a name on a platform of
\* integer width w when the generator is in state g at the call
ChainDrawn ==
    [w \in IntWidths |-> [name \in Names |-> [g \in RngStates |->
        vescsolar_sampler(g, name, NSamp, w).choice_chain]]]

\* the chain indices a generator freshly seeded from the name draws
FreshDraw ==
    [w \in IntWidths |-> [name \in Names |->
        NpRandomChoice(SeedState(craft_seed(name, w)), Len(VESCSOLAR), NSamp).picks]]

RECURSIVE CoefficientWith(_, _, _)
\* the coefficient a correlation list gives for a quantity, else default
CoefficientWith(clist, qname, default) ==
    IF clist = <<>> THEN default
    ELSE CoefficientWith(Tail(clist), qname,
                         IF Head(clist).quantity = qname
                         THEN Head(clist).value ELSE default)

\* C10: when the first parallax entry lists correlations with both proper
\* motions and the chosen proper-motion entries list their mutual
\* correlation, the matrix handed to the sampler holds the three
\* coefficients at (0,1), (0,2), (1,2) and their transposes; in every case
\* the matrix is symmetric with unit diagonal.
C10_CorrelationMatrix ==
    Written =>
        LET m == out.kine.kine_corr
        IN  /\ \A i, j \in 0..3 : m[i][j] = m[j][i]
            /\ \A i \in 0..3 : m[i][i] = 100
            /\ ( In(cur, "parallax") /\ In(cur, "propermotionra")
                 /\ In(cur, "propermotiondec")
                 /\ Has(cur["parallax"][1], "correlations")
                 /\ Has(cur["propermotionra"][out.kine.best_propermotion_i + 1],
                        "correlations")
                 /\ Has(cur["propermotiondec"][out.kine.best_propermotion_i + 1],
                        "correlations") )
                 => LET px == cur["parallax"][1].correlations
                        pm == cur["propermotionra"]
                                 [out.kine.best_propermotion_i + 1].correlations
                    IN  /\ m[0][1] = CoefficientWith(px, "propermotionra", 0)
                        /\ m[0][2] = CoefficientWith(px, "propermotiondec", 0)
                        /\ m[1][2] = CoefficientWith(pm, "propermotiondec", 0)

\* the second half of C10 taken alone
CorrelationMatrixIsSymmetric ==
    Written =>
        /\ \A i, j \in 0..3 : out.kine.kine_corr[i][j] = out.kine.kine_corr[j][i]
        /\ \A i \in 0..3 : out.kine.kine_corr[i][i] = 100

====
